---- MODULE Spec2Model ----
(***************************************************************************)
(* reclutch_event: the multi-listener event log (RawEventQueue behind the  *)
(* non-Rc Queue / Listener of nonrc.rs) and the single-slot bidirectional  *)
(* channel of bidir_single.rs.                                             *)
(*                                                                         *)
(* The event log is a record [items, base_index, cursors, next_key]; the   *)
(* channel is the pair of optional slots behind the shared RefCell, each   *)
(* slot written as a sequence of pending values (<<>> is None, <<v>> is    *)
(* Some(v)).                                                               *)
(***************************************************************************)
EXTENDS Integers, Sequences, FiniteSets, TLC

VARIABLES items, base_index, cursors, next_key, hist, ghost, lastOp, issued, cell,
          inner, sent, chanOp, frame,
          mlogs, mhandles, emitted, mergeOp

logVars == <<items, base_index, cursors, next_key, hist, ghost, lastOp, issued, cell>>
chanVars == <<inner, sent, chanOp, frame>>
mergeVars == <<mlogs, mhandles, emitted, mergeOp>>
vars == <<items, base_index, cursors, next_key, hist, ghost, lastOp, issued, cell,
          inner, sent, chanOp, frame, mlogs, mhandles, emitted, mergeOp>>

\* ---------------------------------------------------------------- bounds
\* Total number of events pushed to the log in one behaviour.
MaxPush == 3
\* Total number of listeners created on the log in one behaviour.
MaxKeys == 2
\* Largest n handed to peek_n / pull_n.
MaxN == 2
\* Total number of events emitted to the merged queues in one behaviour.
MaxEmit == 4
\* Largest value travelling through the channel.
MaxVal == 3

\* Event payloads. The log is generic in the payload and never inspects it, so the
\* i-th push carries the i-th value (10, 20, 30 as in the crate's tests): every event
\* is then distinguishable and a skipped, repeated or reordered event shows.
Values == {10 * i : i \in 1..MaxPush}
NextValue(h) == 10 * (Len(h) + 1)
\* The payloads of the next k pushes, in push order.
NextValues(h, k) == [i \in 1..k |-> 10 * (Len(h) + i)]
ChanValues == 1..MaxVal

\* ---------------------------------------------------------------- helpers
Min(S) == CHOOSE x \in S : \A y \in S : x <= y
Range(f) == {f[x] : x \in DOMAIN f}
DropFirst(s, n) == SubSeq(s, n + 1, Len(s))
MinNat(a, b) == IF a <= b THEN a ELSE b

\* ===================================================== EventLog (RawEventQueue)
\* The log as one value.
Log == [items |-> items, base_index |-> base_index, cursors |-> cursors, next_key |-> next_key]

\* RawEventQueue::new: nothing retained, no listener.
EmptyLog == [items |-> <<>>, base_index |-> 0, cursors |-> <<>>, next_key |-> 1]

\* Global index one past the newest retained event.
write_position(L) == L.base_index + Len(L.items)

\* Garbage collection: drop the prefix every cursor has passed.
garbage_collect(L) ==
    IF DOMAIN L.cursors = {}
    THEN L
    ELSE LET m == Min(Range(L.cursors))
         IN [L EXCEPT !.items = DropFirst(@, m - L.base_index), !.base_index = m]

push(L, e) == [L EXCEPT !.items = Append(@, e)]

\* extend: every event of the iterator is appended, in order, in one call.
extend(L, es) == [L EXCEPT !.items = @ \o es]

create_listener(L) ==
    [log |-> [L EXCEPT !.cursors = [k \in DOMAIN L.cursors \cup {L.next_key} |->
                                       IF k = L.next_key THEN write_position(L) ELSE L.cursors[k]],
                       !.next_key = @ + 1],
     ret |-> L.next_key]

\* remove_listener that, given a key nobody holds, removes the oldest listener.
remove_listener_Oldest(L, key) ==
    LET gone == IF key \in DOMAIN L.cursors \/ DOMAIN L.cursors = {}
                THEN key
                ELSE Min(DOMAIN L.cursors)
    IN garbage_collect([L EXCEPT !.cursors = [k \in DOMAIN L.cursors \ {gone} |-> L.cursors[k]]])

remove_listener(L, key) ==
    garbage_collect([L EXCEPT !.cursors = [k \in DOMAIN L.cursors \ {key} |-> L.cursors[k]]])

\* The events a listener has not read yet.
unread(L, key) ==
    IF key \in DOMAIN L.cursors
    THEN DropFirst(L.items, L.cursors[key] - L.base_index)
    ELSE <<>>

pull(L, key) ==
    [log |-> garbage_collect(
                IF key \in DOMAIN L.cursors
                THEN [L EXCEPT !.cursors[key] = write_position(L)]
                ELSE L),
     ret |-> unread(L, key)]

pull_n(L, key, n) ==
    IF n = 0
    THEN [log |-> L, ret |-> <<>>]
    ELSE LET got == SubSeq(unread(L, key), 1, MinNat(n, Len(unread(L, key))))
         IN [log |-> garbage_collect(
                        IF key \in DOMAIN L.cursors
                        THEN [L EXCEPT !.cursors[key] = @ + Len(got)]
                        ELSE L),
             ret |-> got]

\* ------------------------------------------------ nonrc.rs: Queue and Listener
\* Queue::push with the new event put in front of the retained ones.
QueuePush_Front(L, e) == [L EXCEPT !.items = <<e>> \o @]

\* Queue::push: borrow the cell mutably and push.
QueuePush(L, e) == push(L, e)

\* Queue::extend: hand the queue and the events to the shared extend.
QueueExtend(L, es) == extend(L, es)

\* Listener::new with the cursor at the start of the retained buffer.
ListenerNew_FromStart(L) ==
    [log |-> [create_listener(L).log EXCEPT !.cursors[L.next_key] = L.base_index],
     ret |-> L.next_key]

\* Listener::new with the cursor one past the write position.
ListenerNew_PastEnd(L) ==
    [log |-> [create_listener(L).log EXCEPT !.cursors[L.next_key] = write_position(L) + 1],
     ret |-> L.next_key]

\* Listener::new handing out the smallest key no registered listener holds.
ListenerNew_ReuseFreed(L) ==
    LET free == CHOOSE k \in 1..L.next_key :
                    /\ k \notin DOMAIN L.cursors
                    /\ \A j \in 1..(k - 1) : j \in DOMAIN L.cursors
    IN [log |-> [L EXCEPT !.cursors = [k \in DOMAIN L.cursors \cup {free} |->
                                          IF k = free THEN write_position(L) ELSE L.cursors[k]],
                          !.next_key = @ + 1],
        ret |-> free]

\* Queue::listen / Listener::new: the handle holds the key create_listener returns.
ListenerNew(L) == create_listener(L)

\* with_inner_mut running the closure on a copy of the log: the result is returned,
\* the cell keeps the log it had.
ListenerWithInnerMut_OnCopy(L, key, f, n) ==
    CASE f = "pull" -> [log |-> L, ret |-> pull(L, key).ret]
      [] f = "pull_n" -> [log |-> L, ret |-> pull_n(L, key, n).ret]
      [] f = "remove_listener" -> [log |-> L, ret |-> <<>>]

\* with_inner_mut handing the closure the newest listener's key, not the handle's.
ListenerWithInnerMut_WrongKey(L, key, f, n) ==
    CASE f = "pull" -> pull(L, L.next_key - 1)
      [] f = "pull_n" -> pull_n(L, L.next_key - 1, n)
      [] f = "remove_listener" -> [log |-> remove_listener(L, L.next_key - 1), ret |-> <<>>]

\* with_inner_mut with a garbage collection after whatever the closure did.
ListenerWithInnerMut_AlwaysCollect(L, key, f, n) ==
    CASE f = "pull" -> pull(L, key)
      [] f = "pull_n" -> [log |-> garbage_collect(pull_n(L, key, n).log), ret |-> pull_n(L, key, n).ret]
      [] f = "remove_listener" -> [log |-> remove_listener(L, key), ret |-> <<>>]

\* Listener::with_inner_mut: borrow the parent's cell mutably and run the closure f on
\* (the handle's key, the borrowed log); what the closure does to the log stays in the
\* cell. The closures the crate passes are pull, pull_n(n) and remove_listener.
ListenerWithInnerMut(L, key, f, n) ==
    CASE f = "pull" -> pull(L, key)
      [] f = "pull_n" -> pull_n(L, key, n)
      [] f = "remove_listener" -> [log |-> remove_listener(L, key), ret |-> <<>>]

\* A Listener whose disposal leaves its cursor registered.
ListenerDrop_Forget(L, key) == L

\* Drop for Listener: remove_listener with the handle's own key.
ListenerDrop(L, key) == ListenerWithInnerMut(L, key, "remove_listener", 0).log

\* Queue::event_len (test helper): number of retained events.
event_len(L) == Len(L.items)

\* Listen::peek / peek_n of a Listener: pull / pull_n with the handle's key.
ListenerPeek(L, key) == ListenerWithInnerMut(L, key, "pull", 0)
ListenerPeekN(L, key, n) == ListenerWithInnerMut(L, key, "pull_n", n)

\* ---------------------------------------------------------------- log actions
\* hist is every event ever pushed, in push order; it is never trimmed.
\* ghost[k], for each live Listener handle k:
\*   pulled = whether k has made a pull (peek) yet,
\*   born   = number of events pushed before k was created (kept until k's first
\*            pull, 0 afterwards),
\*   read   = number of events of hist pushed before k was created or already handed
\*            to k by one of its reads.
\* lastOp: the latest operation, the handle that made it and what it returned;
\*   freed = whether it shrank the retained buffer,
\*   first = whether it was that handle's first pull,
\*   again = whether the operation before it was a pull by the same handle.
\* issued: every key a Listener handle has been given so far.
SetLog(L) ==
    /\ items' = L.items
    /\ base_index' = L.base_index
    /\ cursors' = L.cursors
    /\ next_key' = L.next_key

Op(op, key, ret, L) ==
    [op |-> op, key |-> key, ret |-> ret,
     freed |-> event_len(L) < event_len(Log),
     first |-> op = "peek" /\ ~ghost[key].pulled,
     again |-> op = "peek" /\ lastOp.op = "peek" /\ lastOp.key = key]

Push(e) ==
    /\ Len(hist) < MaxPush
    /\ e = NextValue(hist)
    /\ SetLog(QueuePush(Log, e))
    /\ hist' = Append(hist, e)
    /\ lastOp' = Op("push", 0, <<>>, QueuePush(Log, e))
    /\ UNCHANGED <<ghost, issued, cell, chanVars, mergeVars>>

\* One call of extend with k events, k = 0 for an empty iterator.
Extend(k) ==
    /\ Len(hist) + k <= MaxPush
    /\ SetLog(QueueExtend(Log, NextValues(hist, k)))
    /\ hist' = hist \o NextValues(hist, k)
    /\ lastOp' = Op("extend", 0, <<>>, QueueExtend(Log, NextValues(hist, k)))
    /\ UNCHANGED <<ghost, issued, cell, chanVars, mergeVars>>

Listen ==
    /\ next_key <= MaxKeys
    /\ LET r == ListenerNew(Log)
       IN /\ SetLog(r.log)
          /\ ghost' = [k \in DOMAIN ghost \cup {r.ret} |->
                          IF k = r.ret
                          THEN [pulled |-> FALSE, born |-> Len(hist), read |-> Len(hist)]
                          ELSE ghost[k]]
          /\ lastOp' = Op("listen", r.ret, <<>>, r.log)
    /\ issued' = issued \cup {ListenerNew(Log).ret}
    /\ UNCHANGED <<hist, cell, chanVars, mergeVars>>

Peek(key) ==
    /\ key \in DOMAIN ghost
    /\ LET r == ListenerPeek(Log, key)
       IN /\ SetLog(r.log)
          /\ lastOp' = Op("peek", key, r.ret, r.log)
    /\ ghost' = [ghost EXCEPT ![key] = [pulled |-> TRUE, born |-> 0, read |-> Len(hist)]]
    /\ UNCHANGED <<hist, issued, cell, chanVars, mergeVars>>

PeekN(key, n) ==
    /\ key \in DOMAIN ghost
    /\ LET r == ListenerPeekN(Log, key, n)
       IN /\ SetLog(r.log)
          /\ lastOp' = Op("peek_n", key, r.ret, r.log)
          /\ ghost' = [ghost EXCEPT ![key].read = @ + Len(r.ret)]
    /\ UNCHANGED <<hist, issued, cell, chanVars, mergeVars>>

Drop(key) ==
    /\ key \in DOMAIN ghost
    /\ SetLog(ListenerDrop(Log, key))
    /\ ghost' = [k \in DOMAIN ghost \ {key} |-> ghost[k]]
    /\ lastOp' = Op("drop", key, <<>>, ListenerDrop(Log, key))
    /\ UNCHANGED <<hist, issued, cell, chanVars, mergeVars>>

\* remove_listener called on the log directly with a key no listener holds: one never
\* created, or one whose listener is already removed (a second disposal).
RawRemove(key) ==
    /\ key \notin DOMAIN cursors
    /\ SetLog(remove_listener(Log, key))
    /\ lastOp' = Op("remove", key, <<>>, remove_listener(Log, key))
    /\ UNCHANGED <<hist, ghost, issued, cell, chanVars, mergeVars>>

\* ------------------------------------------- the RefCell around the log (nonrc.rs)
\* cell.held: a RefMut of the queue's RefCell is alive (a with_inner_mut is running its
\* closure); cell.panicked: a borrow_mut found the cell already borrowed and panicked.
\* RefCell::borrow_mut: take the exclusive borrow, or panic when it is already taken.
borrow_mut(c) == IF c.held THEN [c EXCEPT !.panicked = TRUE] ELSE [c EXCEPT !.held = TRUE]

\* Listener::with_inner_mut up to the call of its closure: the cell is borrowed and the
\* closure, which hands the unread events to the caller's callback, is running.
WithEnter(key) ==
    /\ key \in DOMAIN ghost
    /\ ~cell.held /\ ~cell.panicked
    /\ cell' = borrow_mut(cell)
    /\ lastOp' = Op("with", key, unread(Log, key), Log)
    /\ UNCHANGED <<items, base_index, cursors, next_key, hist, ghost, issued, chanVars, mergeVars>>

\* The callback drops another listener of the same queue: Drop calls with_inner_mut,
\* whose borrow_mut runs before remove_listener is reached.
DropInside(key) ==
    /\ cell.held /\ ~cell.panicked
    /\ key \in DOMAIN ghost
    /\ key # lastOp.key
    /\ cell' = borrow_mut(cell)
    /\ IF borrow_mut(cell).panicked
       THEN /\ lastOp' = [lastOp EXCEPT !.op = "drop_panicked"]
            /\ UNCHANGED <<items, base_index, cursors, next_key, ghost>>
       ELSE /\ SetLog(ListenerDrop(Log, key))
            /\ ghost' = [k \in DOMAIN ghost \ {key} |-> ghost[k]]
            /\ lastOp' = Op("drop", key, <<>>, ListenerDrop(Log, key))
    /\ UNCHANGED <<hist, issued, chanVars, mergeVars>>

\* The callback returns: the pull completes and the RefMut is released.
WithReturn ==
    /\ cell.held /\ ~cell.panicked
    /\ LET key == lastOp.key
           r == ListenerPeek(Log, key)
       IN /\ SetLog(r.log)
          /\ lastOp' = Op("peek", key, r.ret, r.log)
          /\ ghost' = [ghost EXCEPT ![key] = [pulled |-> TRUE, born |-> 0, read |-> Len(hist)]]
    /\ cell' = [cell EXCEPT !.held = FALSE]
    /\ UNCHANGED <<hist, issued, chanVars, mergeVars>>

\* ===================================================== BidirChannel (bidir_single.rs)
\* A channel value c is the tuple behind the RefCell: c[1] is the slot the primary
\* receives from (Option<Tp>), c[2] the slot the secondary receives from (Option<Ts>).
Sides == {"P", "S"}

\* on_queues_mut: which slot a side reads (inq) and which it writes (outq).
inq(side) == IF side = "P" THEN 1 ELSE 2
outq(side) == IF side = "P" THEN 2 ELSE 1

\* Callbacks handed to bounce (FnMut(Tin) -> Option<Tout>) and to map (FnMut(&Tin) -> R).
BounceFns == {"inc", "none", "odd"}
ApplyBounce(f, x) ==
    CASE f = "inc" -> <<x + 1>>
      [] f = "none" -> <<>>
      [] f = "odd" -> IF x % 2 = 1 THEN <<x>> ELSE <<>>
MapFns == {"same", "neg"}
ApplyMap(g, x) == IF g = "same" THEN x ELSE 0 - x

\* Option::take on the inbound slot.
take(c, side) == [c EXCEPT ![inq(side)] = <<>>]

\* emit that keeps a value already pending and stores only into an empty slot.
emit_KeepPending(c, side, v) ==
    IF c[outq(side)] = <<>> THEN [c EXCEPT ![outq(side)] = <<v>>] ELSE c

\* Emitter::emit: overwrite the outbound slot.
emit(c, side, v) == [c EXCEPT ![outq(side)] = <<v>>]

\* bounce that assigns f's answer to outq unconditionally: no reply clears the slot.
bounce_AlwaysStore(c, side, f) ==
    LET reply == IF c[inq(side)] = <<>> THEN <<>> ELSE ApplyBounce(f, c[inq(side)][1])
    IN [inner |-> [take(c, side) EXCEPT ![outq(side)] = reply],
        calls |-> c[inq(side)],
        wrote |-> reply]

\* bounce: take the inbound slot, apply f to it if present, store a reply if f gave one.
\* calls lists the arguments f was invoked with, wrote the values stored to outq.
bounce(c, side, f) ==
    LET reply == IF c[inq(side)] = <<>> THEN <<>> ELSE ApplyBounce(f, c[inq(side)][1])
    IN [inner |-> IF reply # <<>>
                  THEN [take(c, side) EXCEPT ![outq(side)] = reply]
                  ELSE take(c, side),
        calls |-> c[inq(side)],
        wrote |-> reply]

retrieve_newest(c, side) == [inner |-> take(c, side), ret |-> c[inq(side)]]

\* peek that copies the inbound value and leaves it in the slot.
peek_NoTake(c, side) == [inner |-> c, ret |-> c[inq(side)]]

\* Listen::peek: the taken value as a vector of zero or one item.
peek(c, side) == [inner |-> take(c, side), ret |-> c[inq(side)]]

\* Listen::with: f is invoked once on the slice peek returned.
with(c, side) == [inner |-> peek(c, side).inner, seen |-> peek(c, side).ret, calls |-> 1]

\* Listen::map: f is invoked on each taken item.
map(c, side, g) ==
    [inner |-> take(c, side),
     seen |-> c[inq(side)],
     ret |-> [i \in 1..Len(c[inq(side)]) |-> ApplyMap(g, c[inq(side)][i])]]

\* peek_n that takes the inbound value before it looks at n.
peek_n_TakeFirst(c, side, n) ==
    [inner |-> take(c, side), ret |-> IF n = 0 THEN <<>> ELSE c[inq(side)]]

\* Listen::peek_n: nothing for n = 0, else the taken value.
peek_n(c, side, n) ==
    IF n = 0
    THEN [inner |-> c, ret |-> <<>>]
    ELSE [inner |-> take(c, side), ret |-> c[inq(side)]]

with_n(c, side, n) == [inner |-> peek_n(c, side, n).inner, seen |-> peek_n(c, side, n).ret, calls |-> 1]

map_n(c, side, n, g) ==
    IF n = 0
    THEN [inner |-> c, seen |-> <<>>, ret |-> <<>>]
    ELSE [inner |-> take(c, side),
          seen |-> c[inq(side)],
          ret |-> [i \in 1..Len(c[inq(side)]) |-> ApplyMap(g, c[inq(side)][i])]]

\* ---------------------------------------------------------------- channel actions
\* sent[i]: the values written to slot i since slot i was last taken, oldest first;
\*   of a run of three or more writes the last two are kept.
\* chanOp: the latest operation and the side that made it;
\*   seen    = the inbound items it observed (handed to the caller or its callback),
\*   ret     = what it returned (for bounce: the reply it stored),
\*   calls   = how many times it invoked its callback,
\*   pending = sent of its inbound slot before the operation,
\*   again   = whether the operation before it was a taking read by the same side.
TakingReads == {"retrieve_newest", "peek", "with", "map"}

\* w followed by the values of ws, cut to its last two values.
Written(w, ws) == IF Len(w \o ws) <= 2 THEN w \o ws ELSE DropFirst(w \o ws, Len(w \o ws) - 2)

InRange(c) == \A i \in 1..2 : \A j \in 1..Len(c[i]) : c[i][j] \in ChanValues

ChanOp(op, side, seen, ret, calls) ==
    [op |-> op, side |-> side, seen |-> seen, ret |-> ret, calls |-> calls,
     pending |-> IF op = "emit" THEN <<>> ELSE sent[inq(side)],
     again |-> op \in TakingReads /\ chanOp.op \in TakingReads /\ chanOp.side = side]

Emit(side, v) ==
    /\ inner' = emit(inner, side, v)
    /\ sent' = [sent EXCEPT ![outq(side)] = Written(@, <<v>>)]
    /\ chanOp' = ChanOp("emit", side, <<>>, <<>>, 0)
    /\ UNCHANGED <<frame, logVars, mergeVars>>

Bounce(side, f) ==
    LET r == bounce(inner, side, f)
    IN /\ InRange(r.inner)
       /\ inner' = r.inner
       /\ sent' = [sent EXCEPT ![inq(side)] = IF r.inner[inq(side)] = <<>> THEN <<>> ELSE @,
                               ![outq(side)] = Written(@, r.wrote)]
       /\ chanOp' = ChanOp("bounce", side, r.calls, r.wrote, Len(r.calls))
       /\ UNCHANGED <<frame, logVars, mergeVars>>

Read(op, side, r, seen, calls) ==
    /\ inner' = r.inner
    /\ sent' = [sent EXCEPT ![inq(side)] = IF r.inner[inq(side)] = <<>> THEN <<>> ELSE @]
    /\ chanOp' = ChanOp(op, side, seen, r.ret, calls)
    /\ UNCHANGED <<frame, logVars, mergeVars>>

RetrieveNewest(side) ==
    LET r == retrieve_newest(inner, side) IN Read("retrieve_newest", side, r, r.ret, 0)

ChanPeek(side) ==
    LET r == peek(inner, side) IN Read("peek", side, r, r.ret, 0)

ChanWith(side) ==
    LET r == with(inner, side)
    IN Read("with", side, [inner |-> r.inner, ret |-> r.seen], r.seen, r.calls)

ChanMap(side, g) ==
    LET r == map(inner, side, g) IN Read("map", side, r, r.seen, Len(r.seen))

ChanPeekN(side, n) ==
    LET r == peek_n(inner, side, n) IN Read("peek_n", side, r, r.ret, 0)

ChanWithN(side, n) ==
    LET r == with_n(inner, side, n)
    IN Read("with_n", side, [inner |-> r.inner, ret |-> r.seen], r.seen, r.calls)

ChanMapN(side, n, g) ==
    LET r == map_n(inner, side, n, g) IN Read("map_n", side, r, r.seen, Len(r.seen))

\* ------------------------------------------------- callbacks and the cell's borrow
\* frame: the callback in progress, if any.
\*   state    = "idle", "callback" (a callback of operation op on side is running) or
\*              "panicked" (a borrow_mut inside the callback found the cell borrowed);
\*   held     = the operation's RefMut is alive while its callback runs;
\*   arg      = the inbound items handed to the callback;
\*   nested   = the operation the callback called on the same channel, on side nside;
\*   okBefore = some earlier callback's nested operation completed.
IdleFrame ==
    [state |-> "idle", op |-> "none", side |-> "P", held |-> FALSE, arg |-> <<>>,
     nested |-> "none", nside |-> "P", okBefore |-> FALSE]

CbOps == {"bounce", "map", "map_n", "with", "with_n"}
NestedOps == {"emit", "retrieve_newest", "peek"}

\* No operation keeps the cell borrowed while its callback runs.
HoldsBorrowInCallback_Never(op) == FALSE

\* bounce, map and map_n call f inside the closure given to on_queues_mut, whose RefMut
\* lives until on_queues_mut returns; with and with_n call f on what peek / peek_n
\* returned, after on_queues_mut has returned.
HoldsBorrowInCallback(op) == op \in {"bounce", "map", "map_n"}

\* Whether the operation invokes its callback: with and with_n always do; bounce, map
\* and map_n only on a taken value, and map_n(0) returns before looking.
InvokesCallback(c, side, op, n) ==
    \/ op \in {"with", "with_n"}
    \/ op \in {"bounce", "map"} /\ c[inq(side)] # <<>>
    \/ op = "map_n" /\ n > 0 /\ c[inq(side)] # <<>>

\* The slots at the moment the callback is invoked, and the items it is handed.
AtCallback(c, side, op, n) ==
    CASE op = "bounce" -> [inner |-> take(c, side), arg |-> c[inq(side)]]
      [] op = "map" -> [inner |-> take(c, side), arg |-> c[inq(side)]]
      [] op = "map_n" -> [inner |-> take(c, side), arg |-> c[inq(side)]]
      [] op = "with" -> [inner |-> with(c, side).inner, arg |-> with(c, side).seen]
      [] op = "with_n" -> [inner |-> with_n(c, side, n).inner, arg |-> with_n(c, side, n).seen]

\* on_queues_mut entered with the cell borrowed or not: borrow_mut panics on a borrowed
\* cell before the closure runs, else the closure's effect c2 is applied.
on_queues_mut(held, c, c2) ==
    IF held THEN [inner |-> c, panicked |-> TRUE] ELSE [inner |-> c2, panicked |-> FALSE]

\* What a nested operation's closure does to the slots.
NestedEffect(c, op2, side2, v) ==
    CASE op2 = "emit" -> emit(c, side2, v)
      [] op2 = "retrieve_newest" -> retrieve_newest(c, side2).inner
      [] op2 = "peek" -> peek(c, side2).inner

Taken(c, c2, w) == [i \in 1..2 |-> IF c2[i] = <<>> /\ c[i] # <<>> THEN <<>> ELSE w[i]]

CbEnter(op, side, n) ==
    /\ frame.state = "idle"
    /\ op \in {"with_n", "map_n"} \/ n = 1
    /\ InvokesCallback(inner, side, op, n)
    /\ inner' = AtCallback(inner, side, op, n).inner
    /\ sent' = Taken(inner, inner', sent)
    /\ frame' = [frame EXCEPT !.state = "callback", !.op = op, !.side = side,
                              !.held = HoldsBorrowInCallback(op),
                              !.arg = AtCallback(inner, side, op, n).arg,
                              !.nested = "none"]
    /\ UNCHANGED <<chanOp, logVars, mergeVars>>

CbNested(op2, side2, v) ==
    /\ frame.state = "callback"
    /\ frame.nested = "none"
    /\ op2 = "emit" \/ v = 1
    /\ LET r == on_queues_mut(frame.held, inner, NestedEffect(inner, op2, side2, v))
       IN /\ inner' = r.inner
          /\ frame' = [frame EXCEPT !.state = IF r.panicked THEN "panicked" ELSE "callback",
                                    !.nested = op2, !.nside = side2,
                                    !.okBefore = @ \/ ~r.panicked]
    /\ sent' = IF op2 = "emit" /\ ~frame.held
               THEN [sent EXCEPT ![outq(side2)] = Written(@, <<v>>)]
               ELSE Taken(inner, inner', sent)
    /\ UNCHANGED <<chanOp, logVars, mergeVars>>

\* The callback returns; bounce stores the reply f gave, if any.
CbReturn(f) ==
    /\ frame.state = "callback"
    /\ frame.op = "bounce" \/ f = "none"
    /\ LET reply == IF frame.op = "bounce" /\ frame.arg # <<>>
                    THEN ApplyBounce(f, frame.arg[1])
                    ELSE <<>>
       IN /\ inner' = IF reply # <<>> THEN [inner EXCEPT ![outq(frame.side)] = reply] ELSE inner
          /\ sent' = [sent EXCEPT ![outq(frame.side)] = Written(@, reply)]
    /\ InRange(inner')
    /\ frame' = [IdleFrame EXCEPT !.okBefore = frame.okBefore]
    /\ UNCHANGED <<chanOp, logVars, mergeVars>>

\* ===================================================== MergeView (merge.rs)
\* Two event queues (event1, event2 of the merge benchmarks); mlogs[i] is queue i.
\* mhandles is the ordered collection the view is built from: handle h listens on
\* queue h.log with key h.key; h.read is a ghost, the number of emissions made before
\* h was created or last drained. The k-th emission carries the value k - 1
\* (0, 1, 2, 3 in the benchmarks) and emitted[k] is the queue it went to.
MergeLogs == {1, 2}

RECURSIVE DrainFrom(_, _, _, _)
DrainFrom(Ls, hs, i, acc) ==
    IF i > Len(hs)
    THEN [logs |-> Ls, seen |-> acc]
    ELSE LET r == pull(Ls[hs[i].log], hs[i].key)
         IN DrainFrom([Ls EXCEPT ![hs[i].log] = r.log], hs, i + 1, acc \o r.ret)

\* A drain that hands the events over in emission order.
merge_drain_ByTime(Ls, hs) ==
    LET d == DrainFrom(Ls, hs, 1, <<>>)
    IN [logs |-> d.logs, seen |-> SortSeq(d.seen, LAMBDA a, b : a < b)]

\* Drain every handle with its own peek, in collection order, and concatenate.
merge_drain(Ls, hs) == DrainFrom(Ls, hs, 1, <<>>)

\* Merge::with: f is invoked once on the concatenation.
merge_with(Ls, hs) ==
    LET d == merge_drain(Ls, hs)
    IN [logs |-> d.logs, seen |-> d.seen, calls |-> 1]

\* Merge::map: f is applied to each element of the concatenation, in order.
merge_map(Ls, hs, g) ==
    LET d == merge_drain(Ls, hs)
    IN [logs |-> d.logs, seen |-> d.seen,
        ret |-> [i \in 1..Len(d.seen) |-> ApplyMap(g, d.seen[i])]]

MEmit(i) ==
    /\ Len(emitted) < MaxEmit
    /\ mlogs' = [mlogs EXCEPT ![i] = push(@, Len(emitted))]
    /\ emitted' = Append(emitted, i)
    /\ mergeOp' = [op |-> "emit", seen |-> <<>>, ret |-> <<>>, calls |-> 0]
    /\ UNCHANGED <<mhandles, logVars, chanVars>>

MListen(i) ==
    /\ Len(mhandles) < MaxKeys
    /\ mlogs' = [mlogs EXCEPT ![i] = create_listener(@).log]
    /\ mhandles' = Append(mhandles, [log |-> i, key |-> create_listener(mlogs[i]).ret,
                                     read |-> Len(emitted)])
    /\ mergeOp' = [op |-> "listen", seen |-> <<>>, ret |-> <<>>, calls |-> 0]
    /\ UNCHANGED <<emitted, logVars, chanVars>>

Drained(hs) == [i \in 1..Len(hs) |-> [hs[i] EXCEPT !.read = Len(emitted)]]

MergeWith ==
    /\ mhandles # <<>>
    /\ LET r == merge_with(mlogs, mhandles)
       IN /\ mlogs' = r.logs
          /\ mergeOp' = [op |-> "with", seen |-> r.seen, ret |-> r.seen, calls |-> r.calls]
    /\ mhandles' = Drained(mhandles)
    /\ UNCHANGED <<emitted, logVars, chanVars>>

MergeMap(g) ==
    /\ mhandles # <<>>
    /\ LET r == merge_map(mlogs, mhandles, g)
       IN /\ mlogs' = r.logs
          /\ mergeOp' = [op |-> "map", seen |-> r.seen, ret |-> r.ret, calls |-> Len(r.seen)]
    /\ mhandles' = Drained(mhandles)
    /\ UNCHANGED <<emitted, logVars, chanVars>>

Init ==
    /\ items = <<>>
    /\ base_index = 0
    /\ cursors = <<>>
    /\ next_key = 1
    /\ hist = <<>>
    /\ ghost = <<>>
    /\ lastOp = [op |-> "init", key |-> 0, ret |-> <<>>, freed |-> FALSE, first |-> FALSE, again |-> FALSE]
    /\ issued = {}
    /\ cell = [held |-> FALSE, panicked |-> FALSE]
    /\ inner = <<<<>>, <<>>>>
    /\ sent = <<<<>>, <<>>>>
    /\ frame = IdleFrame
    /\ mlogs = <<EmptyLog, EmptyLog>>
    /\ mhandles = <<>>
    /\ emitted = <<>>
    /\ mergeOp = [op |-> "init", seen |-> <<>>, ret |-> <<>>, calls |-> 0]
    /\ chanOp = [op |-> "init", side |-> "P", seen |-> <<>>, ret |-> <<>>, calls |-> 0,
                 pending |-> <<>>, again |-> FALSE]

Next ==
    \/ \E e \in Values : Push(e)
    \/ \E k \in 0..MaxPush : Extend(k)
    \/ Listen
    \/ \E key \in DOMAIN ghost : Peek(key)
    \/ \E key \in DOMAIN ghost, n \in 0..MaxN : PeekN(key, n)
    \/ \E key \in DOMAIN ghost : Drop(key)

Spec == Init /\ [][Next]_vars

ChanNext ==
    \/ \E side \in Sides, v \in ChanValues : Emit(side, v)
    \/ \E side \in Sides, f \in BounceFns : Bounce(side, f)
    \/ \E side \in Sides : RetrieveNewest(side)
    \/ \E side \in Sides : ChanPeek(side)
    \/ \E side \in Sides : ChanWith(side)
    \/ \E side \in Sides, g \in MapFns : ChanMap(side, g)
    \/ \E side \in Sides, n \in 0..MaxN : ChanPeekN(side, n)
    \/ \E side \in Sides, n \in 0..MaxN : ChanWithN(side, n)
    \/ \E side \in Sides, n \in 0..MaxN, g \in MapFns : ChanMapN(side, n, g)

ChanSpec == Init /\ [][ChanNext]_vars

RawNext ==
    \/ Next
    \/ \E key \in 1..(MaxKeys + 1) : RawRemove(key)

RawSpec == Init /\ [][RawNext]_vars

\* The queue operations run while no borrow is alive; a panic ends the behaviour.
DropNext ==
    \/ ~cell.held /\ ~cell.panicked /\ Next
    \/ \E key \in 1..MaxKeys : WithEnter(key)
    \/ \E key \in 1..MaxKeys : DropInside(key)
    \/ WithReturn

DropSpec == Init /\ [][DropNext]_vars

ReentNext ==
    \/ frame.state = "idle" /\ \E side \in Sides, v \in ChanValues : Emit(side, v)
    \/ \E op \in CbOps, side \in Sides, n \in 0..MaxN : CbEnter(op, side, n)
    \/ \E op2 \in NestedOps, side2 \in Sides, v \in ChanValues : CbNested(op2, side2, v)
    \/ \E f \in BounceFns : CbReturn(f)

ReentSpec == Init /\ [][ReentNext]_vars

MergeNext ==
    \/ \E i \in MergeLogs : MEmit(i)
    \/ \E i \in MergeLogs : MListen(i)
    \/ MergeWith
    \/ \E g \in MapFns : MergeMap(g)

MergeSpec == Init /\ [][MergeNext]_vars

\* ====================================================================== claims
Handles == DOMAIN ghost
AnyPeekN(k) == \E n \in 0..MaxN : PeekN(k, n)

\* C1: a pull (peek) by a listener returns exactly the events pushed since that
\* listener's previous pull (or its creation) and not yet handed to it, each once,
\* in push order.
C1_PullReturnsExactlyTheNewEvents ==
    [][\A k \in Handles : Peek(k) => lastOp'.ret = DropFirst(hist, ghost[k].read)]_vars

\* A second or later pull that returned two different events after an earlier one
\* had been consumed.
C1_Witness ==
    /\ lastOp.op = "peek"
    /\ ~lastOp.first
    /\ lastOp.ret = <<20, 30>>

\* C2: a listener created after N pushes starts at the write position, and its first
\* pull returns none of those N events: only events pushed after its creation.
C2_NoHistoryLeak ==
    [][/\ Listen => /\ cursors'[lastOp'.key] = write_position(Log)
                    /\ unread(Log', lastOp'.key) = <<>>
       /\ \A k \in Handles :
            Peek(k) /\ ~ghost[k].pulled =>
                \E i \in ghost[k].born..Len(hist) : lastOp'.ret = DropFirst(hist, i)]_vars

\* A first pull of a listener created after one push, with other events still
\* retained at its creation, returning the two later events.
C2_Witness ==
    /\ lastOp.op = "peek"
    /\ lastOp.first
    /\ lastOp.ret = <<20, 30>>
    /\ lastOp.key = 2

\* C3: once a listener has pulled, a further pull with nothing pushed in between
\* returns the empty sequence and changes neither the retained items nor any cursor.
C3_RepeatedPullIsEmpty ==
    [][\A k \in Handles :
          Peek(k) /\ ghost[k].pulled /\ ghost[k].read = Len(hist) =>
              /\ lastOp'.ret = <<>>
              /\ items' = items
              /\ base_index' = base_index
              /\ cursors' = cursors]_vars

\* A pull directly after a pull by the same listener, while the other listener
\* still keeps events retained.
C3_Witness ==
    /\ lastOp.op = "peek"
    /\ lastOp.again
    /\ lastOp.ret = <<>>
    /\ event_len(Log) > 0

\* C4: whenever at least one listener exists, the retained count is the write position
\* minus the minimum cursor (base_index is the minimum cursor).
C4_ReclamationInvariant ==
    DOMAIN cursors # {} =>
        /\ base_index = Min(Range(cursors))
        /\ event_len(Log) = write_position(Log) - Min(Range(cursors))

\* C5: a pull that leaves every live listener's cursor at the write position leaves
\* no retained event.
C5_AllConsumedMeansEmpty ==
    (/\ lastOp.op = "peek"
     /\ \A k \in Handles : k \in DOMAIN cursors /\ cursors[k] = write_position(Log))
    => event_len(Log) = 0

\* The pull of the last listener that had not read yet: both listeners are at the
\* write position and the pull freed the retained events.
C5_Witness ==
    /\ lastOp.op = "peek"
    /\ lastOp.freed
    /\ Cardinality(DOMAIN cursors) = 2
    /\ \A k \in DOMAIN cursors : cursors[k] = write_position(Log)
    /\ event_len(Log) = 0

\* C6: dropping a listener removes its cursor and reclaims: with listeners left,
\* everything before their minimum cursor is freed right after the drop.
C6_DropReclaims ==
    [][\A k \in Handles :
          Drop(k) =>
              /\ k \notin DOMAIN cursors'
              /\ DOMAIN cursors' = DOMAIN cursors \ {k}
              /\ DOMAIN cursors' # {} =>
                    /\ base_index' = Min(Range(cursors'))
                    /\ items' = DropFirst(items, Min(Range(cursors')) - base_index)]_vars

\* Listener 1 never read, listener 2 read everything; dropping listener 1 freed all
\* three retained events.
C6_Witness ==
    /\ lastOp.op = "drop"
    /\ lastOp.key = 1
    /\ lastOp.freed
    /\ DOMAIN cursors = {2}
    /\ Len(hist) = 3
    /\ event_len(Log) = 0

\* C7: a pull or pull_n by one listener leaves every other listener's cursor, and
\* the events every other listener's next pull returns, as they were.
C7_PerListenerIsolation ==
    [][\A k \in Handles :
          Peek(k) \/ AnyPeekN(k) =>
              /\ DOMAIN cursors' = DOMAIN cursors
              /\ \A j \in DOMAIN cursors \ {k} :
                    /\ cursors'[j] = cursors[j]
                    /\ unread(Log', j) = unread(Log, j)]_vars

\* Listener 1 read all three events while listener 2 still lags by two.
C7_Witness ==
    /\ lastOp.op \in {"peek", "peek_n"}
    /\ lastOp.key = 1
    /\ lastOp.ret # <<>>
    /\ 2 \in DOMAIN cursors
    /\ cursors[1] = 3
    /\ unread(Log, 2) = <<20, 30>>

\* The newest of the values written to a slot, as the slot holds it.
Newest(w) == IF w = <<>> THEN <<>> ELSE <<w[Len(w)]>>

\* C8: each direction holds at most one pending value, and the peer's read (peek,
\* retrieve_newest, bounce) after a run of writes with no read in between observes
\* only the last value written; the earlier ones are lost.
C8_ChannelOverwrite ==
    /\ \A i \in 1..2 : Len(inner[i]) <= 1 /\ inner[i] = Newest(sent[i])
    /\ chanOp.op \in {"peek", "retrieve_newest", "bounce"} => chanOp.seen = Newest(chanOp.pending)

\* The peer reads after the values 2 and 3 were written with no read in between, and
\* sees 3 only.
C8_Witness ==
    /\ chanOp.op \in {"peek", "retrieve_newest", "bounce"}
    /\ chanOp.pending = <<2, 3>>
    /\ chanOp.seen = <<3>>

\* C9: bounce(f) clears the inbound slot; with v inbound and f(v) = w the outbound slot
\* becomes w; with nothing inbound, or f(v) yielding nothing, the outbound slot keeps
\* what it had; f is invoked only when a value was inbound.
C9_Bounce ==
    [][\A side \in Sides, f \in BounceFns :
          Bounce(side, f) =>
              /\ inner'[inq(side)] = <<>>
              /\ IF inner[inq(side)] = <<>>
                 THEN /\ chanOp'.calls = 0
                      /\ inner'[outq(side)] = inner[outq(side)]
                 ELSE /\ chanOp'.calls = 1
                      /\ chanOp'.seen = inner[inq(side)]
                      /\ inner'[outq(side)] =
                            IF ApplyBounce(f, inner[inq(side)][1]) # <<>>
                            THEN ApplyBounce(f, inner[inq(side)][1])
                            ELSE inner[outq(side)]]_vars

\* A bounce whose callback was invoked and yielded nothing, with a value pending in
\* the outbound slot that is still there afterwards.
C9_Witness ==
    /\ chanOp.op = "bounce"
    /\ chanOp.calls = 1
    /\ chanOp.ret = <<>>
    /\ inner[outq(chanOp.side)] # <<>>

\* C10: retrieve_newest, peek, with and map take the inbound value and clear the slot:
\* a second such read with no write by the peer in between is empty, and the reading
\* side's outbound slot is untouched.
C10_ReadTakesAndClears ==
    [][\A side \in Sides :
          (RetrieveNewest(side) \/ ChanPeek(side) \/ ChanWith(side)
              \/ \E g \in MapFns : ChanMap(side, g)) =>
              /\ chanOp'.seen = inner[inq(side)]
              /\ inner'[inq(side)] = <<>>
              /\ inner'[outq(side)] = inner[outq(side)]
              /\ sent[inq(side)] = <<>> => chanOp'.seen = <<>>]_vars

\* A read directly after a read by the same side: it is empty, and the side's own
\* pending outbound value is still in place.
C10_Witness ==
    /\ chanOp.op \in TakingReads
    /\ chanOp.again
    /\ chanOp.seen = <<>>
    /\ inner[outq(chanOp.side)] # <<>>

\* C11: peek_n / with_n / map_n with n = 0 observe nothing and leave the inbound slot as
\* it is; with n > 0 they do what peek / with / map do and observe at most one item.
C11_BoundedReads ==
    [][\A side \in Sides, n \in 0..MaxN :
          /\ ChanPeekN(side, n) \/ ChanWithN(side, n) \/ (\E g \in MapFns : ChanMapN(side, n, g)) =>
                /\ Len(chanOp'.seen) <= 1
                /\ IF n = 0
                   THEN chanOp'.seen = <<>> /\ chanOp'.ret = <<>> /\ inner' = inner
                   ELSE chanOp'.seen = inner[inq(side)] /\ inner' = peek(inner, side).inner
          /\ n > 0 =>
                /\ ChanPeekN(side, n) => chanOp'.ret = peek(inner, side).ret
                /\ ChanWithN(side, n) => chanOp'.ret = with(inner, side).seen
                /\ \A g \in MapFns : ChanMapN(side, n, g) => chanOp'.ret = map(inner, side, g).ret]_vars

\* A bounded read with n = 0: it observed nothing although a value was pending, and the
\* value is still in the inbound slot.
C11_Witness ==
    /\ chanOp.op \in {"peek_n", "with_n", "map_n"}
    /\ chanOp.seen = <<>>
    /\ chanOp.pending # <<>>
    /\ inner[inq(chanOp.side)] = Newest(chanOp.pending)

\* The values emitted to queue h.log since handle h was created or last drained, in
\* emission order.
Owed(h) ==
    LET stamps == [j \in 1..(Len(emitted) - h.read) |-> h.read + j - 1]
        Mine(x) == emitted[x + 1] = h.log
    IN SelectSeq(stamps, Mine)

RECURSIVE OwedInOrder(_, _)
OwedInOrder(hs, i) == IF i > Len(hs) THEN <<>> ELSE Owed(hs[i]) \o OwedInOrder(hs, i + 1)

\* C12: with and map over an ordered collection of handles drain every handle and
\* observe the handles' unread events grouped by handle, in collection order, each
\* group in emission order (never merged by emission time); with invokes f once.
C12_MergeGroupsBySource ==
    [][mergeOp'.op \in {"with", "map"} =>
          /\ mergeOp'.seen = OwedInOrder(mhandles, 1)
          /\ \A i \in 1..Len(mhandles) : unread(mlogs'[mhandles[i].log], mhandles[i].key) = <<>>
          /\ mergeOp'.op = "with" => mergeOp'.calls = 1 /\ mergeOp'.ret = mergeOp'.seen
          /\ mergeOp'.op = "map" =>
                \E g \in MapFns :
                    mergeOp'.ret = [i \in 1..Len(mergeOp'.seen) |-> ApplyMap(g, mergeOp'.seen[i])]]_vars

\* The benchmark: the emissions 0, 1, 2, 3 alternate between the two queues and the
\* merged with observes 0, 2, 1, 3 in one call of f.
C12_Witness ==
    /\ mergeOp.op = "with"
    /\ mergeOp.calls = 1
    /\ mergeOp.seen = <<0, 2, 1, 3>>

\* C13: pull_n(key, n) returns the first min(n, unread count) unread events of the
\* listener in push order and advances its cursor by the number returned; what it did
\* not return is exactly what the listener has left to read, in order.
C13_PullNTakesEarliest ==
    [][\A k \in Handles, n \in 0..MaxN :
          PeekN(k, n) =>
             LET u == DropFirst(hist, ghost[k].read)
                 got == SubSeq(u, 1, MinNat(n, Len(u)))
             IN /\ lastOp'.ret = got
                /\ cursors'[k] = cursors[k] + Len(got)
                /\ unread(Log', k) = DropFirst(u, Len(got))]_vars

\* A bounded read that returned the first of three unread events and left two.
C13_Witness ==
    /\ lastOp.op = "peek_n"
    /\ lastOp.ret = <<10>>
    /\ unread(Log, lastOp.key) = <<20, 30>>

\* C14: pull_n(key, 0) returns nothing and leaves items, base_index, every cursor and
\* next_key as they were, also where a garbage collection would trim.
C14_PullNZeroIsNoOp ==
    [][\A k \in Handles :
          PeekN(k, 0) => /\ lastOp'.ret = <<>>
                         /\ UNCHANGED <<items, base_index, cursors, next_key>>]_vars

\* After a bounded read, events every cursor has passed are still retained: only a
\* read with n = 0 leaves them, any other read collects.
C14_Witness ==
    /\ lastOp.op = "peek_n"
    /\ lastOp.ret = <<>>
    /\ DOMAIN cursors # {}
    /\ base_index < Min(Range(cursors))
    /\ items # <<>>

\* C17: every registered cursor lies between base_index and the write position.
C17_CursorBounds ==
    \A k \in DOMAIN cursors : base_index <= cursors[k] /\ cursors[k] <= write_position(Log)

\* Items were trimmed, and a cursor lies strictly inside the retained buffer.
C17_Witness ==
    /\ base_index > 0
    /\ \E k \in DOMAIN cursors : base_index < cursors[k] /\ cursors[k] < write_position(Log)
    /\ \E k \in DOMAIN cursors : cursors[k] = base_index

\* C19: the key a new listener gets was never handed out before, whether its holder
\* is still registered or was removed.
C19_KeysAreFresh ==
    [][Listen => /\ lastOp'.key \notin issued
                 /\ lastOp'.key \notin DOMAIN cursors
                 /\ lastOp'.key \in DOMAIN cursors']_vars

\* A listener created after listener 1 was dropped got key 2.
C19_Witness ==
    /\ lastOp.op = "listen"
    /\ lastOp.key = 2
    /\ 1 \in issued
    /\ 1 \notin DOMAIN cursors

\* The cursor of the listener that has read furthest.
MaxCursor == CHOOSE c \in Range(cursors) : \A d \in Range(cursors) : d <= c

\* C18 as stated: with a listener registered, the retained items number at most
\* (max cursor - base_index).
C18_ItemsBoundedByMaxCursor ==
    DOMAIN cursors # {} => Len(items) <= MaxCursor - base_index

\* C18: with a listener registered, (max cursor - base_index) is at most the number of
\* retained items, and equals it right after a pull, whose listener's cursor is at the
\* write position; events pushed since the furthest read are retained beyond it.
C18_MaxCursorBoundedByItems ==
    DOMAIN cursors # {} =>
        /\ MaxCursor - base_index <= Len(items)
        /\ lastOp.op = "peek" /\ lastOp.key \in DOMAIN cursors =>
              Len(items) = MaxCursor - base_index

\* Trimmed log with a listener registered that retains more than the furthest cursor
\* has read.
C18_Witness ==
    /\ DOMAIN cursors # {}
    /\ base_index > 0
    /\ Len(items) > MaxCursor - base_index
    /\ MaxCursor > base_index

\* C15: remove_listener with a key no listener holds completes and leaves every
\* registered listener's cursor, and the events it has still to receive, unchanged.
C15_RemoveUnknownKeyIsNoOp ==
    [][\A key \in 1..(MaxKeys + 1) :
          RawRemove(key) =>
              /\ cursors' = cursors
              /\ next_key' = next_key
              /\ \A k \in DOMAIN cursors :
                    /\ unread(Log', k) = unread(Log, k)
                    /\ unread(Log', k) = DropFirst(hist, ghost[k].read)]_vars

\* A second removal of an already removed key, with a listener registered that still
\* has an event to read; the collection that followed trimmed a stale event.
C15_Witness ==
    /\ lastOp.op = "remove"
    /\ lastOp.key \in issued
    /\ lastOp.freed
    /\ \E k \in DOMAIN cursors : unread(Log, k) # <<>>

\* C16: dropping a listener never panics, whatever else is in progress on its queue.
C16_DisposalNeverPanics == ~cell.panicked

\* C20: an operation called on either handle from inside a callback of bounce, map or
\* map_n panics on the borrowed cell and leaves both slots as they were; called from
\* inside a callback of with or with_n, which runs after the value was taken and the
\* borrow released, it completes with its usual effect on the slots.
C20_Reentrancy ==
    [][/\ \A op \in CbOps, side \in Sides, n \in 0..MaxN :
             CbEnter(op, side, n) /\ op \in {"with", "with_n"} =>
                 /\ ~frame'.held
                 /\ n > 0 => inner'[inq(side)] = <<>> /\ frame'.arg = inner[inq(side)]
       /\ \A op2 \in NestedOps, side2 \in Sides, v \in ChanValues :
             CbNested(op2, side2, v) =>
                 IF frame.op \in {"bounce", "map", "map_n"}
                 THEN frame'.state = "panicked" /\ inner' = inner
                 ELSE /\ frame'.state = "callback"
                      /\ inner' = NestedEffect(inner, op2, side2, v)]_vars

\* A nested operation panicked inside a callback of bounce, map or map_n, after a
\* nested operation inside a callback of with or with_n had completed.
C20_Witness ==
    /\ frame.state = "panicked"
    /\ frame.op \in {"bounce", "map", "map_n"}
    /\ frame.arg # <<>>
    /\ frame.okBefore

====
